---------------------------- MODULE Spec2Model ----------------------------
(***************************************************************************)
(* A model of pyomo/repn/linear.py: the LinearRepn canonical result, the   *)
(* before-child classifiers, the exit-node rule table and the traversal    *)
(* driver LinearRepnVisitor, stepped one visitor callback at a time.       *)
(*                                                                         *)
(* Numbers are Python floats modelled exactly as extended rationals        *)
(* <<n, d>>: d > 0 and gcd(n, d) = 1 for a finite value, <<1, 0>> and      *)
(* <<-1, 0>> for +inf and -inf, <<0, 0>> for NaN.                          *)
(* Expressions are tuples whose first element names the node class.       *)
(* LinearRepn objects live in a heap and are handled by reference, so that *)
(* in-place mutation and aliasing are those of the Python code.            *)
(*                                                                         *)
(* The second part models ScaleModel of                                    *)
(* pyomo/core/plugins/transform/scaling.py: _suffix_finder,                *)
(* _get_float_scaling_factor and the phases of _apply_to, under the        *)
(* specification ScaleSpec.                                                *)
(***************************************************************************)
EXTENDS Integers, Sequences, FiniteSets, TLC

\* ------------------------------------------------------------------ bounds
\* Coefficients and constants of the input expressions range over
\* -MaxCoef..MaxCoef (and NaN, inf where a template says so).
MaxCoef == 1
\* Expressions walked by one driver (one LinearRepnVisitor registry/cache).
MaxWalks == 2
\* fix()/unfix() operations applied to variables between walks.
MaxFixOps == 1
\* Blocks from the parent block of the scaled component up to the model.
MaxDepth == 2

\* ------------------------------------------------------- Python arithmetic
Abs(n) == IF n < 0 THEN -n ELSE n

Sgn(n) == IF n < 0 THEN -1 ELSE IF n > 0 THEN 1 ELSE 0

RECURSIVE GCD(_, _)
GCD(a, b) == IF b = 0 THEN a ELSE GCD(b, a % b)

\* The float n/d (d # 0) in lowest terms with a positive denominator.
Norm(n, d) ==
  LET g == GCD(Abs(n), Abs(d))
  IN  <<Sgn(d) * (n \div g), Abs(d) \div g>>

Num(n) == <<n, 1>>

nan == <<0, 0>>

inf == <<1, 0>>

Zero == Num(0)

One == Num(1)

\* x != x
IsNaN(a) == a = nan

\* "not a": only 0 is falsy; NaN and inf are truthy.
IsZero(a) == a = Zero

\* a == 1
IsOne(a) == a = One

IsFinite(a) == a[2] # 0

\* a + b
Add(a, b) ==
  IF a[2] # 0 /\ b[2] # 0 THEN Norm(a[1] * b[2] + b[1] * a[2], a[2] * b[2])
  ELSE IF a[2] = 0 /\ b[2] = 0 THEN (IF a = b THEN a ELSE nan)
  ELSE IF a[2] = 0 THEN a
  ELSE b

\* a * b
Mul(a, b) ==
  IF a[2] # 0 /\ b[2] # 0 THEN Norm(a[1] * b[1], a[2] * b[2])
  ELSE <<Sgn(a[1] * b[1]), 0>>

\* 1 / b for b # 0
Recip(b) ==
  IF b[2] = 0 THEN (IF b[1] = 0 THEN nan ELSE Zero)
  ELSE <<Sgn(b[1]) * b[2], Abs(b[1])>>

\* a / b raises ZeroDivisionError when b == 0
DivRaises(a, b) == IsZero(b)

\* a / b for b # 0
Div(a, b) == Mul(a, Recip(b))


\* ------------------------------------------------------------ expressions
\* <<"num", c>>          a native numeric literal
\* <<"param", c>>        a mutable Param holding c (a leaf that is never variable)
\* <<"var", id>>         a variable, known by its identity id
\* <<"mon", c, id>>      MonomialTermExpression((c, var)), c a "num" or a
\*                       never-variable expression
\* <<"lin", args>>       LinearExpression(args)
\* <<"sum", args>>       SumExpression(args)
\* <<"neg", a>>  <<"prod", a, b>>  <<"div", a, b>>
\* <<"named", id>>       a named Expression component whose expr is NamedExpr(id)
\* <<"if", t, a, b>>     Expr_ifExpression
\* <<"ext", args>>       a call of an external function
\* <<"other", args>>     an operator of a class that has no exit-node handlers
\*                       and no before-child handler when the module is loaded
\* An operator all of whose operands are never variable is of the NPV_ class
\* of its kind (IsPV is FALSE on it).
Vars == {"x", "y", "z"}

NamedIds == {"e", "f"}

None == <<"none">>

Kind(e) == e[1]

NumE(c) == <<"num", c>>

VarE(id) == <<"var", id>>

MonE(c, id) == <<"mon", NumE(c), id>>

SumE(args) == <<"sum", args>>

\* The expr of each named Expression of the model under study:
\*   e = 2*z + 1        f = -(z + x)
NamedExpr(id) ==
  IF id = "e" THEN SumE(<<MonE(Num(2), "z"), NumE(One)>>)
  ELSE <<"neg", SumE(<<VarE("z"), VarE("x")>>)>>

\* node.args
Args(e) ==
  CASE Kind(e) \in {"sum", "lin", "ext", "other"} -> e[2]
    [] Kind(e) = "neg" -> <<e[2]>>
    [] Kind(e) \in {"prod", "div"} -> <<e[2], e[3]>>
    [] Kind(e) = "mon" -> <<e[2], VarE(e[3])>>
    [] Kind(e) = "named" -> <<NamedExpr(e[2])>>
    [] Kind(e) = "if" -> <<e[2], e[3], e[4]>>
    [] OTHER -> <<>>

\* node.is_potentially_variable()
RECURSIVE IsPV(_)
IsPV(e) ==
  CASE Kind(e) \in {"num", "param"} -> FALSE
    [] Kind(e) \in {"var", "mon", "lin", "named", "if"} -> TRUE
    [] OTHER -> \E i \in 1..Len(Args(e)) : IsPV(Args(e)[i])

\* is_fixed(e): no unfixed variable occurs in e
RECURSIVE is_fixed(_, _)
is_fixed(e, fixed) ==
  CASE Kind(e) \in {"num", "param"} -> TRUE
    [] Kind(e) = "var" -> e[2] \in fixed
    [] OTHER -> \A i \in 1..Len(Args(e)) : is_fixed(Args(e)[i], fixed)

\* The value the (test) external function returns on argument values a.
RECURSIVE ExternalValue(_)
ExternalValue(a) ==
  IF a = <<>> THEN One ELSE Add(Head(a), ExternalValue(Tail(a)))

\* e(): the value of e under the variable values val, as <<TRUE, value>>, or
\* <<FALSE, 0>> when the evaluation raises (ZeroDivisionError).
Raised == <<FALSE, Zero>>

RECURSIVE Eval(_, _)
RECURSIVE EvalArgs(_, _)
EvalArgs(args, val) ==
  IF args = <<>> THEN <<TRUE, <<>>>>
  ELSE LET h == Eval(Head(args), val)
           t == EvalArgs(Tail(args), val)
       IN  IF h[1] /\ t[1] THEN <<TRUE, <<h[2]>> \o t[2]>> ELSE <<FALSE, <<>>>>

RECURSIVE SumOf(_)
SumOf(vals) == IF vals = <<>> THEN Zero ELSE Add(Head(vals), SumOf(Tail(vals)))

Eval(e, val) ==
  LET a == EvalArgs(Args(e), val)
  IN  CASE Kind(e) \in {"num", "param"} -> <<TRUE, e[2]>>
        [] Kind(e) = "var" -> <<TRUE, val[e[2]]>>
        [] ~a[1] -> Raised
        [] Kind(e) \in {"mon", "prod"} -> <<TRUE, Mul(a[2][1], a[2][2])>>
        [] Kind(e) = "neg" -> <<TRUE, Mul(Num(-1), a[2][1])>>
        [] Kind(e) = "div" ->
             IF DivRaises(a[2][1], a[2][2]) THEN Raised
             ELSE <<TRUE, Div(a[2][1], a[2][2])>>
        [] Kind(e) \in {"sum", "lin"} -> <<TRUE, SumOf(a[2])>>
        [] Kind(e) = "named" -> <<TRUE, a[2][1]>>
        [] Kind(e) = "if" ->
             <<TRUE, IF IsZero(a[2][1]) THEN a[2][3] ELSE a[2][2]>>
        [] OTHER -> <<TRUE, ExternalValue(a[2])>>

\* ------------------------------------------------------------- LinearRepn
\* LinearRepn.__init__.  linear is the dict as its sequence of <<vid, coef>>
\* items, in insertion order.
LinearRepn ==
  [multiplier |-> One, constant |-> Zero, linear |-> <<>>, nonlinear |-> None]

\* vid in d
Has(d, vid) == \E i \in 1..Len(d) : d[i][1] = vid

\* d[vid]
Get(d, vid) == d[CHOOSE i \in 1..Len(d) : d[i][1] = vid][2]

\* d[vid] = coef
Put(d, vid, coef) ==
  IF Has(d, vid)
  THEN [i \in 1..Len(d) |-> IF d[i][1] = vid THEN <<vid, coef>> ELSE d[i]]
  ELSE Append(d, <<vid, coef>>)

\* The keys of d
Keys(d) == {d[i][1] : i \in 1..Len(d)}

\* A classified child: tag with a bare number (val) for CONSTANT, with a
\* reference to a LinearRepn of the heap (ref) otherwise.
Const(c) == [tag |-> "CONSTANT", val |-> c, ref |-> 0]

Ref(tag, r) == [tag |-> tag, val |-> Zero, ref |-> r]

NoResult == [tag |-> "NONE", val |-> Zero, ref |-> 0]

\* What a callback hands back: the visitor state after it, whether to
\* descend, the classified result, and the exception it raised ("" if none).
Return(v, res) == [v |-> v, walk |-> FALSE, res |-> res, exc |-> ""]

Descend(v) == [v |-> v, walk |-> TRUE, res |-> NoResult, exc |-> ""]

Raise(v, exc) == [v |-> v, walk |-> FALSE, res |-> NoResult, exc |-> exc]

\* A new object on the heap; its reference is Len(v.heap) + 1.
Alloc(v, obj) == [v EXCEPT !.heap = Append(@, obj)]

NewRef(v) == Len(v.heap) + 1

\* _merge_dict with "=" for "+=": a term of a variable already present
\* replaces its coefficient.
RECURSIVE _merge_dict_overwrite(_, _, _)
_merge_dict_overwrite(mult, self_dict, other_dict) ==
  IF other_dict = <<>> THEN self_dict
  ELSE LET vid == Head(other_dict)[1]
           coef == Head(other_dict)[2]
           term == IF IsOne(mult) THEN coef ELSE Mul(mult, coef)
       IN  _merge_dict_overwrite(mult, Put(self_dict, vid, term), Tail(other_dict))

\* _merge_dict(mult, self_dict, other_dict)
RECURSIVE _merge_dict(_, _, _)
_merge_dict(mult, self_dict, other_dict) ==
  IF other_dict = <<>> THEN self_dict
  ELSE LET vid == Head(other_dict)[1]
           coef == Head(other_dict)[2]
           term == IF IsOne(mult) THEN coef ELSE Mul(mult, coef)
           merged == IF Has(self_dict, vid)
                     THEN Put(self_dict, vid, Add(Get(self_dict, vid), term))
                     ELSE Put(self_dict, vid, term)
       IN  _merge_dict(mult, merged, Tail(other_dict))

\* walker_exitNode testing nonlinear only: an accumulator without terms is
\* handed back as LINEAR
walker_exitNode_linear_if_not_general(v, r) ==
  IF v.heap[r].nonlinear # None THEN Return(v, Ref("GENERAL", r))
  ELSE Return(v, Ref("LINEAR", r))

\* LinearRepn.walker_exitNode, on the object at reference r
walker_exitNode(v, r) ==
  LET self == v.heap[r]
  IN  IF self.nonlinear # None THEN Return(v, Ref("GENERAL", r))
      ELSE IF self.linear # <<>> THEN Return(v, Ref("LINEAR", r))
      ELSE Return(v, Const(Mul(self.multiplier, self.constant)))

\* LinearRepn.duplicate
duplicate(self) ==
  [multiplier |-> self.multiplier, constant |-> self.constant,
   linear |-> self.linear, nonlinear |-> self.nonlinear]

\* The monomial terms MonomialTermExpression((coef, var_map[vid])) of the
\* items of d with a truthy coef
RECURSIVE Monomials(_)
Monomials(d) ==
  IF d = <<>> THEN <<>>
  ELSE IF IsZero(Head(d)[2]) THEN Monomials(Tail(d))
  ELSE <<MonE(Head(d)[2], Head(d)[1])>> \o Monomials(Tail(d))

\* LinearRepn.to_expression
LinearRepn_to_expression(self) ==
  LET base == IF self.linear # <<>>
              THEN SumE(<<<<"lin", Monomials(self.linear)>>, NumE(self.constant)>>)
              ELSE NumE(self.constant)
      withnl == IF self.nonlinear # None
                THEN SumE(<<base, self.nonlinear>>)
                ELSE base
  IN  IF IsOne(self.multiplier) THEN withnl
      ELSE IF Kind(withnl) = "num" THEN NumE(Mul(withnl[2], self.multiplier))
      ELSE <<"prod", withnl, NumE(self.multiplier)>>

\* to_expression[arg[0]](visitor, arg)
to_expression(v, arg) ==
  IF arg.tag = "CONSTANT" THEN NumE(arg.val)
  ELSE LinearRepn_to_expression(v.heap[arg.ref])

\* append taking the child's multiplier over instead of applying it:
\* self.multiplier *= other.multiplier, the parts added unscaled
append_multiplier_to_self(v, r, other) ==
  LET self == v.heap[r]
      o == v.heap[other.ref]
  IN  IF other.tag = "CONSTANT"
      THEN [v EXCEPT !.heap[r].constant = Add(@, other.val)]
      ELSE [v EXCEPT !.heap[r] =
             [multiplier |-> Mul(self.multiplier, o.multiplier),
              constant |-> Add(self.constant, o.constant),
              linear |-> IF o.linear # <<>>
                         THEN _merge_dict(One, self.linear, o.linear)
                         ELSE self.linear,
              nonlinear |-> IF o.nonlinear = None THEN self.nonlinear
                            ELSE IF self.nonlinear = None THEN o.nonlinear
                            ELSE SumE(<<self.nonlinear, o.nonlinear>>)]]

\* LinearRepn.append(other), self being the object at reference r
append(v, r, other) ==
  LET self == v.heap[r]
      o == v.heap[other.ref]
      mult == o.multiplier
      nl == IF ~IsOne(mult) THEN <<"prod", NumE(mult), o.nonlinear>>
            ELSE o.nonlinear
  IN  IF other.tag = "CONSTANT"
      THEN [v EXCEPT !.heap[r].constant = Add(@, other.val)]
      ELSE [v EXCEPT !.heap[r] =
             [multiplier |-> self.multiplier,
              constant |-> Add(self.constant, Mul(mult, o.constant)),
              linear |-> IF o.linear # <<>>
                         THEN _merge_dict(mult, self.linear, o.linear)
                         ELSE self.linear,
              nonlinear |-> IF o.nonlinear = None THEN self.nonlinear
                            ELSE IF self.nonlinear = None THEN nl
                            ELSE SumE(<<self.nonlinear, nl>>)]]

\* ---------------------------------------------------- exit-node handlers
\* visitor state v: heap, var_map, var_order, subexpression_cache; the
\* classes _register_new_before_child_dispatcher has added to the module's
\* _before_child_dispatcher (dispatcher: "other" and its NPV_ class
\* "npv_other"); the variables' fixed flags and values (fixed, value); and two counters kept
\* for the analysis: nwrites[id], the assignments made to
\* subexpression_cache[id], and ndescents[id], the times the walker entered
\* the named expression id.

\* arg[1].multiplier *= c  (in place)
ScaleMultiplier(v, arg, c) ==
  [v EXCEPT !.heap[arg.ref].multiplier = Mul(@, c)]

_handle_negation_constant(v, node, arg) ==
  Return(v, Const(Mul(Num(-1), arg.val)))

_handle_negation_ANY(v, node, arg) ==
  Return(ScaleMultiplier(v, arg, Num(-1)), arg)

_handle_product_constant_constant(v, node, arg1, arg2) ==
  Return(v, [tag |-> arg2.tag, val |-> Mul(arg1.val, arg2.val), ref |-> 0])

_handle_product_constant_ANY(v, node, arg1, arg2) ==
  IF IsZero(arg1.val) \/ IsNaN(arg1.val) THEN Return(v, Const(arg1.val))
  ELSE Return(ScaleMultiplier(v, arg2, arg1.val), arg2)

_handle_product_ANY_constant(v, node, arg1, arg2) ==
  IF IsZero(arg2.val) \/ IsNaN(arg2.val) THEN Return(v, Const(arg2.val))
  ELSE Return(ScaleMultiplier(v, arg1, arg2.val), arg1)

\* ans = visitor.Result(); ans.nonlinear = expr; return _GENERAL, ans
General(v, expr) ==
  Return(Alloc(v, [LinearRepn EXCEPT !.nonlinear = expr]),
         Ref("GENERAL", NewRef(v)))

\* _handle_product_nonlinear reconstructing arg1 for both factors
_handle_product_nonlinear_arg1_twice(v, node, arg1, arg2) ==
  General(v, <<"prod", to_expression(v, arg1), to_expression(v, arg1)>>)

_handle_product_nonlinear(v, node, arg1, arg2) ==
  General(v, <<"prod", to_expression(v, arg1), to_expression(v, arg2)>>)

_handle_division_constant_constant(v, node, arg1, arg2) ==
  IF DivRaises(arg1.val, arg2.val) THEN Raise(v, "ZeroDivisionError")
  ELSE Return(v, [tag |-> arg2.tag, val |-> Div(arg1.val, arg2.val), ref |-> 0])

_handle_division_ANY_constant(v, node, arg1, arg2) ==
  IF IsNaN(arg2.val) THEN Return(v, Const(arg2.val))
  ELSE IF DivRaises(v.heap[arg1.ref].multiplier, arg2.val)
  THEN Raise(v, "ZeroDivisionError")
  ELSE Return([v EXCEPT !.heap[arg1.ref].multiplier = Div(@, arg2.val)], arg1)

_handle_division_nonlinear(v, node, arg1, arg2) ==
  General(v, <<"div", to_expression(v, arg1), to_expression(v, arg2)>>)

_handle_named_constant(v, node, arg1) ==
  Return([v EXCEPT !.subexpression_cache = (node[2] :> arg1) @@ @,
                   !.nwrites[node[2]] = @ + 1],
         arg1)

\* _handle_named_ANY without the duplicate(): the consumer gets the cached
\* object itself.
_handle_named_ANY_alias(v, node, arg1) ==
  Return([v EXCEPT !.subexpression_cache = (node[2] :> arg1) @@ @,
                   !.nwrites[node[2]] = @ + 1],
         arg1)

_handle_named_ANY(v, node, arg1) ==
  LET w == [v EXCEPT !.subexpression_cache = (node[2] :> arg1) @@ @,
                     !.nwrites[node[2]] = @ + 1]
  IN  Return(Alloc(w, duplicate(w.heap[arg1.ref])), Ref(arg1.tag, NewRef(w)))

_handle_expr_if_nonlinear(v, node, arg1, arg2, arg3) ==
  General(v, <<"if", to_expression(v, arg1), to_expression(v, arg2),
               to_expression(v, arg3)>>)

_handle_expr_if_const(v, node, arg1, arg2, arg3) ==
  IF arg1.tag # "CONSTANT"
  THEN _handle_expr_if_nonlinear(v, node, arg1, arg2, arg3)
  ELSE IF ~IsZero(arg1.val)
  THEN (IF IsNaN(arg1.val)
        THEN _handle_expr_if_nonlinear(v, node, arg1, arg2, arg3)
        ELSE Return(v, arg2))
  ELSE Return(v, arg3)

\* The tags of the classified children
Tags(data) == [i \in 1..Len(data) |-> data[i].tag]

NonConst == {"LINEAR", "GENERAL"}

\* exit_node_dispatcher[(node.__class__, *tags)](visitor, node, *data): the
\* table _initialize_exit_node_dispatcher builds from _exit_node_handlers,
\* with the entries _register_new_before_child_dispatcher adds for the NPV_
\* class of an operator that has handlers.  A missing key is a KeyError.
exit_node_dispatcher(v, node, data) ==
  LET k == Kind(node)
      t == Tags(data)
  IN  CASE k = "neg" /\ t = <<"CONSTANT">> ->
             _handle_negation_constant(v, node, data[1])
        [] k = "neg" /\ Len(t) = 1 /\ t[1] \in NonConst ->
             _handle_negation_ANY(v, node, data[1])
        [] k = "prod" /\ t = <<"CONSTANT", "CONSTANT">> ->
             _handle_product_constant_constant(v, node, data[1], data[2])
        [] k = "prod" /\ Len(t) = 2 /\ t[1] = "CONSTANT" /\ t[2] \in NonConst ->
             _handle_product_constant_ANY(v, node, data[1], data[2])
        [] k = "prod" /\ Len(t) = 2 /\ t[1] \in NonConst /\ t[2] = "CONSTANT" ->
             _handle_product_ANY_constant(v, node, data[1], data[2])
        [] k = "prod" /\ Len(t) = 2 /\ t[1] \in NonConst /\ t[2] \in NonConst ->
             _handle_product_nonlinear(v, node, data[1], data[2])
        [] k = "div" /\ t = <<"CONSTANT", "CONSTANT">> ->
             _handle_division_constant_constant(v, node, data[1], data[2])
        [] k = "div" /\ Len(t) = 2 /\ t[1] \in NonConst /\ t[2] = "CONSTANT" ->
             _handle_division_ANY_constant(v, node, data[1], data[2])
        [] k = "div" /\ Len(t) = 2 /\ t[2] \in NonConst ->
             _handle_division_nonlinear(v, node, data[1], data[2])
        [] k = "named" /\ t = <<"CONSTANT">> ->
             _handle_named_constant(v, node, data[1])
        [] k = "named" /\ Len(t) = 1 /\ t[1] \in NonConst ->
             _handle_named_ANY(v, node, data[1])
        [] k = "if" /\ Len(t) = 3 /\ t[1] = "CONSTANT" ->
             _handle_expr_if_const(v, node, data[1], data[2], data[3])
        [] k = "if" /\ Len(t) = 3 /\ t[1] \in NonConst ->
             _handle_expr_if_nonlinear(v, node, data[1], data[2], data[3])
        [] OTHER -> Raise(v, "KeyError")

\* --------------------------------------------------- before-child handlers
\* The registration with the index taken from var_map after its assignment:
\* var_order[_id] = len(var_map)
Register_len_var_map(v, id) ==
  [v EXCEPT !.var_map = (id :> VarE(id)) @@ @,
            !.var_order = (id :> Cardinality(DOMAIN v.var_map) + 1) @@ @]

\* visitor.var_map[_id] = child; visitor.var_order[_id] = len(visitor.var_order)
Register(v, id) ==
  [v EXCEPT !.var_map = (id :> VarE(id)) @@ @,
            !.var_order = (id :> Cardinality(DOMAIN @)) @@ @]

\* ans = visitor.Result(); ans.linear[_id] = coef; return False, (_LINEAR, ans)
LinearTerm(v, id, coef) ==
  Return(Alloc(v, [LinearRepn EXCEPT !.linear = <<<<id, coef>>>>]),
         Ref("LINEAR", NewRef(v)))

_before_native(v, child) == Return(v, Const(child[2]))

_before_var(v, child) ==
  LET id == child[2]
  IN  IF id \notin DOMAIN v.var_map
      THEN (IF id \in v.fixed THEN Return(v, Const(v.value[id]))
            ELSE LinearTerm(Register(v, id), id, One))
      ELSE LinearTerm(v, id, One)

_before_npv(v, child) ==
  LET tmp == Eval(child, v.value)
  IN  IF tmp[1] THEN Return(v, Const(tmp[2])) ELSE Descend(v)

\* _before_monomial trapping a zero coefficient only, not NaN
_before_monomial_no_nan_trap(v, child) ==
  LET native == Kind(child[2]) = "num"
      ev == Eval(child[2], v.value)
      arg1 == IF native THEN child[2][2] ELSE ev[2]
      id == child[3]
  IN  IF ~native /\ ~ev[1] THEN Descend(v)
      ELSE IF IsZero(arg1) THEN Return(v, Const(arg1))
      ELSE IF id \notin DOMAIN v.var_map
      THEN (IF id \in v.fixed THEN Return(v, Const(Mul(arg1, v.value[id])))
            ELSE LinearTerm(Register(v, id), id, arg1))
      ELSE LinearTerm(v, id, arg1)

_before_monomial(v, child) ==
  LET native == Kind(child[2]) = "num"
      ev == Eval(child[2], v.value)
      arg1 == IF native THEN child[2][2] ELSE ev[2]
      id == child[3]
  IN  IF ~native /\ ~ev[1] THEN Descend(v)
      ELSE IF IsZero(arg1) \/ IsNaN(arg1) THEN Return(v, Const(arg1))
      ELSE IF id \notin DOMAIN v.var_map
      THEN (IF id \in v.fixed THEN Return(v, Const(Mul(arg1, v.value[id])))
            ELSE LinearTerm(Register(v, id), id, arg1))
      ELSE LinearTerm(v, id, arg1)

\* The loop of _before_linear over child.args from position i on, with the
\* visitor state, const and ans.linear reached so far.  Yields the state at
\* the loop's end, or at the "return True, None" that leaves it early.
RECURSIVE LinearLoop(_, _, _, _, _)
LinearLoop(v, args, i, const, linear) ==
  IF i > Len(args) THEN [v |-> v, const |-> const, linear |-> linear, walk |-> FALSE]
  ELSE
    LET arg == args[i]
        ismon == Kind(arg) = "mon"
        native == Kind(IF ismon THEN arg[2] ELSE arg) = "num"
        ev == Eval(IF ismon THEN arg[2] ELSE arg, v.value)
        arg1 == IF native THEN (IF ismon THEN arg[2][2] ELSE arg[2]) ELSE ev[2]
        id == arg[3]
    IN  IF ~native /\ ~ev[1]
        THEN [v |-> v, const |-> const, linear |-> linear, walk |-> TRUE]
        ELSE IF ~ismon THEN LinearLoop(v, args, i + 1, Add(const, arg1), linear)
        ELSE IF IsZero(arg1) THEN LinearLoop(v, args, i + 1, const, linear)
        ELSE IF IsNaN(arg1) THEN LinearLoop(v, args, i + 1, Add(const, arg1), linear)
        ELSE IF id \notin DOMAIN v.var_map
        THEN (IF id \in v.fixed
              THEN LinearLoop(v, args, i + 1,
                              Add(const, Mul(arg1, v.value[id])), linear)
              ELSE LinearLoop(Register(v, id), args, i + 1, const,
                              Put(linear, id, arg1)))
        ELSE IF Has(linear, id)
        THEN LinearLoop(v, args, i + 1, const,
                        Put(linear, id, Add(Get(linear, id), arg1)))
        ELSE LinearLoop(v, args, i + 1, const, Put(linear, id, arg1))

_before_linear(v, child) ==
  LET r == LinearLoop(v, child[2], 1, Zero, <<>>)
  IN  IF r.walk THEN Descend(r.v)
      ELSE IF r.linear # <<>>
      THEN Return(Alloc(r.v, [LinearRepn EXCEPT !.linear = r.linear,
                                                !.constant = r.const]),
                  Ref("LINEAR", NewRef(r.v)))
      ELSE Return(r.v, Const(r.const))

\* _before_named_expression that never looks in the cache
_before_named_expression_redescend(v, child) == Descend(v)

\* _before_named_expression taking only the non-CONSTANT entries from the
\* cache: a named expression cached as CONSTANT is descended again.
_before_named_expression_const_redescend(v, child) ==
  LET id == child[2]
      hit == v.subexpression_cache[id]
  IN  IF id \in DOMAIN v.subexpression_cache /\ hit.tag # "CONSTANT"
      THEN Return(Alloc(v, duplicate(v.heap[hit.ref])), Ref(hit.tag, NewRef(v)))
      ELSE Descend(v)

_before_named_expression(v, child) ==
  LET id == child[2]
      hit == v.subexpression_cache[id]
  IN  IF id \in DOMAIN v.subexpression_cache
      THEN (IF hit.tag = "CONSTANT" THEN Return(v, hit)
            ELSE Return(Alloc(v, duplicate(v.heap[hit.ref])),
                        Ref(hit.tag, NewRef(v))))
      ELSE Descend(v)

\* test() raises: a native number is not callable (TypeError), and the
\* evaluation of an expression may raise.  Past the try block, the name
\* "self" is not defined in this function: NameError.
_before_expr_if(v, child) ==
  LET test == child[2]
  IN  IF is_fixed(test, v.fixed)
      THEN (IF Kind(test) = "num" \/ ~Eval(test, v.value)[1] THEN Descend(v)
            ELSE Raise(v, "NameError"))
      ELSE Descend(v)

\* With every argument fixed, "ans.constant = test()" raises NameError (no
\* name "test" is defined), which the bare except swallows: both paths reach
\* "ans.nonlinear = child".
NameErrorOnTest == TRUE

_before_external(v, child) ==
  LET allfixed == \A i \in 1..Len(child[2]) : is_fixed(child[2][i], v.fixed)
  IN  IF allfixed /\ ~NameErrorOnTest
      THEN Return(Alloc(v, [LinearRepn EXCEPT
                              !.constant = Eval(child, v.value)[2]]),
                  [tag |-> "CONSTANT", val |-> Zero, ref |-> NewRef(v)])
      ELSE General(v, child)

_before_general_expression(v, child) == Descend(v)

\* _register_new_before_child_dispatcher(visitor, child) for a child of the
\* class "other" or of its NPV_ class, not yet in the dispatcher.  The
\* never-variable class is entered first; when its potentially variable
\* base class is not in the dispatcher either, the nested call names
\* "self", which is not defined in this function: NameError.
_register_new_before_child_dispatcher(v, child) ==
  IF IsPV(child)
  THEN _before_general_expression(
         [v EXCEPT !.dispatcher = @ \cup {"other"}], child)
  ELSE IF "other" \notin v.dispatcher
  THEN Raise([v EXCEPT !.dispatcher = @ \cup {"npv_other"}], "NameError")
  ELSE _before_npv([v EXCEPT !.dispatcher = @ \cup {"npv_other"}], child)

\* _before_child_dispatcher[child.__class__](visitor, child), the table as
\* the module fills it and as _register_new_before_child_dispatcher extends
\* it on the first child of a class: a Param leaf and an NPV_ operator get
\* _before_npv.
beforeChild(v, child) ==
  LET k == Kind(child)
  IN  CASE k = "num" -> _before_native(v, child)
        [] k = "var" -> _before_var(v, child)
        [] k = "param" -> _before_npv(v, child)
        [] k = "mon" -> _before_monomial(v, child)
        [] k = "lin" -> _before_linear(v, child)
        [] k = "named" -> _before_named_expression(v, child)
        [] k = "if" -> _before_expr_if(v, child)
        [] k = "other" /\ IsPV(child) /\ "other" \notin v.dispatcher ->
             _register_new_before_child_dispatcher(v, child)
        [] k = "other" /\ ~IsPV(child) /\ "npv_other" \notin v.dispatcher ->
             _register_new_before_child_dispatcher(v, child)
        [] ~IsPV(child) -> _before_npv(v, child)
        [] k = "ext" -> _before_external(v, child)
        [] OTHER -> _before_general_expression(v, child)

\* ------------------------------------------------------ LinearRepnVisitor
\* The zero-coefficient items of d dropped; the others scaled by mult when
\* scale is set (the two loops of finalizeResult).
RECURSIVE FinalLinear(_, _, _)
FinalLinear(d, mult, scale) ==
  IF d = <<>> THEN <<>>
  ELSE IF IsZero(Head(d)[2]) THEN FinalLinear(Tail(d), mult, scale)
  ELSE <<<<Head(d)[1], IF scale THEN Mul(Head(d)[2], mult) ELSE Head(d)[2]>>>>
       \o FinalLinear(Tail(d), mult, scale)

\* LinearRepnVisitor.finalizeResult: the visitor state after it and the
\* reference of the LinearRepn it returns.
finalizeResult(v, result) ==
  LET ans == v.heap[result.ref]
      mult == ans.multiplier
  IN  IF result.ref # 0
      THEN (IF IsOne(mult)
            THEN [v |-> [v EXCEPT !.heap[result.ref].linear =
                                     FinalLinear(@, mult, FALSE)],
                  ref |-> result.ref]
            ELSE [v |-> [v EXCEPT !.heap[result.ref] =
                           [ans EXCEPT !.linear = FinalLinear(@, mult, TRUE),
                                       !.nonlinear =
                                          IF @ # None
                                          THEN <<"prod", @, NumE(mult)>>
                                          ELSE @]],
                  ref |-> result.ref])
      ELSE [v |-> Alloc(v, [LinearRepn EXCEPT !.constant = result.val]),
            ref |-> NewRef(v)]

\* LinearRepnVisitor.enterNode: the frame of a node being descended; acc is
\* the reference of the LinearRepn that accumulates a SumExpression (0 for
\* the list of any other class, kept in data).
enterNode(v, node) ==
  LET issum == Kind(node) = "sum" /\ IsPV(node)
  IN  [v |-> IF issum THEN Alloc(v, LinearRepn) ELSE v,
       frame |-> [node |-> node, idx |-> 1,
                  acc |-> IF issum THEN NewRef(v) ELSE 0, data |-> <<>>]]

\* The key (node.__class__, *tags) is in the exit-node table: the classes
\* of _exit_node_handlers that the model has, each with every combination
\* of operand tags.
HasRule(node, tags) ==
  \/ Kind(node) \in {"neg", "named"} /\ Len(tags) = 1
  \/ Kind(node) \in {"prod", "div"} /\ Len(tags) = 2
  \/ Kind(node) = "if" /\ Len(tags) = 3

\* exitNode looking the rule up with a default: a node without a rule is
\* handed back as GENERAL, itself the nonlinear part
exitNode_default_general(v, frame) ==
  IF frame.acc # 0 THEN walker_exitNode(v, frame.acc)
  ELSE IF ~HasRule(frame.node, Tags(frame.data)) THEN General(v, frame.node)
  ELSE exit_node_dispatcher(v, frame.node, frame.data)

\* LinearRepnVisitor.exitNode
exitNode(v, frame) ==
  IF frame.acc # 0 THEN walker_exitNode(v, frame.acc)
  ELSE exit_node_dispatcher(v, frame.node, frame.data)

\* acceptChildResult: data.append(child_result), on the frame's data
Accept(v, frame, res) ==
  IF frame.acc # 0
  THEN [v |-> append(v, frame.acc, res),
        frame |-> [frame EXCEPT !.idx = @ + 1]]
  ELSE [v |-> v,
        frame |-> [frame EXCEPT !.idx = @ + 1, !.data = Append(@, res)]]

\* Objects nothing refers to any more are reclaimed between walks: the heap
\* keeps the cached LinearRepn objects only.
NamedOrder == <<"e", "f">>

CachedIds(v) ==
  SelectSeq(NamedOrder, LAMBDA id : /\ id \in DOMAIN v.subexpression_cache
                                    /\ v.subexpression_cache[id].ref # 0)

Collect(v) ==
  LET ids == CachedIds(v)
      pos(id) == CHOOSE i \in 1..Len(ids) : ids[i] = id
  IN  [v EXCEPT
         !.heap = [i \in 1..Len(ids) |-> v.heap[v.subexpression_cache[ids[i]].ref]],
         !.subexpression_cache =
            [id \in DOMAIN @ |->
               IF @[id].ref # 0 THEN [@[id] EXCEPT !.ref = pos(id)] ELSE @[id]]]

\* ------------------------------------------------------------ the inputs
Finite == {Num(n) : n \in -MaxCoef..MaxCoef}

Special == Finite \cup {nan, inf}

X == VarE("x")

Y == VarE("y")

Z == VarE("z")

\* a*x + b*y + c*x + d, as the SumExpression and as the LinearExpression
AffineArgs(a, b, c, d) == <<MonE(a, "x"), MonE(b, "y"), MonE(c, "x"), NumE(d)>>

\* a*x - c*x, the second term under a NegationExpression
Cancel(a, c) == SumE(<<MonE(a, "x"), <<"neg", MonE(c, "x")>>>>)

AffineExprs ==
  {SumE(AffineArgs(a, Num(MaxCoef), c, Num(MaxCoef))) : a \in Finite, c \in Finite}
  \cup {<<"lin", AffineArgs(a, Num(MaxCoef), c, Num(MaxCoef))>> :
          a \in Special, c \in Special}
  \cup {SumE(AffineArgs(Num(3), Num(2), Num(-3), Num(5))),
        <<"lin", AffineArgs(Num(3), Num(2), Num(-3), Num(5))>>}
  \cup {<<"prod", NumE(m), SumE(<<X, NumE(c)>>)>> :
          m \in Special \cup {Num(2)}, c \in Finite}
  \cup {<<"prod", SumE(<<X, NumE(c)>>), NumE(m)>> : m \in Special, c \in Finite}
  \cup {<<"neg", SumE(<<X, NumE(c)>>)>> : c \in Finite}
  \cup {<<"div", SumE(<<MonE(a, "x"), NumE(One)>>), NumE(m)>> :
          a \in Finite, m \in Special \cup {Num(2)}}
  \cup {Cancel(a, c) : a \in Special, c \in Special}
  \cup {<<"prod", NumE(m), Cancel(a, c)>> :
          m \in Special, a \in Special, c \in {One, inf}}
  \cup {SumE(<<<<"prod", NumE(m), SumE(<<X, NumE(c)>>)>>, Y>>) :
          m \in Special, c \in Finite}

\* x*a + x*b as products and as monomial terms; q * (1/p) and its use in a
\* sum; m * x and m * (x*y)
NanExprs ==
  {SumE(<<<<"prod", X, NumE(a)>>, <<"prod", X, NumE(b)>>>>) : a \in Special, b \in Special}
  \cup {SumE(<<MonE(a, "x"), MonE(b, "x")>>) : a \in Special, b \in Special}
  \cup {<<"lin", <<MonE(a, "x"), MonE(b, "x")>>>> : a \in Special, b \in Special}
  \cup {<<"prod", NumE(q), <<"div", NumE(One), <<"param", p>>>>>> :
          q \in Special, p \in Special}
  \cup {SumE(<<X, <<"prod", NumE(q), <<"div", NumE(One), <<"param", p>>>>>>>>) :
          q \in Special, p \in Special}
  \cup {<<"prod", NumE(m), X>> : m \in Special}
  \cup {<<"prod", X, NumE(m)>> : m \in Special}
  \cup {<<"prod", NumE(m), <<"prod", X, Y>>>> : m \in Special}

\* Expr_if with a native, a Param and a variable test
IfExprs ==
  {<<"if", NumE(t), X, Y>> : t \in Special}
  \cup {<<"if", <<"param", t>>, X, Y>> : t \in Special}
  \cup {<<"if", Z, X, Y>>, <<"if", <<"div", NumE(One), <<"param", Zero>>>>, X, Y>>}

\* external function calls on a variable, on a Param, and inside a sum
ExternalExprs ==
  {<<"ext", <<Z>>>>, <<"ext", <<Z, <<"param", One>>>>>>,
   <<"ext", <<<<"param", One>>>>>>, SumE(<<<<"ext", <<Z>>>>, X>>)}

\* uses of the named expressions e and f
NamedExprs ==
  {<<"named", id>> : id \in NamedIds}
  \cup {SumE(<<<<"named", id>>, w>>) : id \in NamedIds, w \in {X, Y}}
  \cup {<<"neg", <<"named", id>>>> : id \in NamedIds}
  \cup {<<"prod", NumE(m), <<"named", id>>>> : m \in Special, id \in NamedIds}
  \cup {SumE(<<<<"named", "e">>, <<"neg", <<"named", "e">>>>>>),
        SumE(<<<<"named", "e">>, <<"named", "f">>>>)}

\* products and quotients of non-constant operands; never-variable sums and
\* monomial or linear terms whose coefficient cannot be evaluated
OtherExprs ==
  {<<"prod", SumE(<<X, NumE(One)>>), SumE(<<Y, NumE(One)>>)>>,
   <<"div", X, Y>>, <<"div", NumE(One), X>>,
   <<"mon", <<"div", NumE(One), <<"param", Zero>>>>, "x">>,
   <<"lin", <<MonE(One, "x"), <<"div", NumE(One), <<"param", Zero>>>>>>>>,
   <<"sum", <<<<"param", One>>, <<"div", NumE(One), <<"param", Zero>>>>>>>>,
   X, NumE(One), <<"param", One>>}

\* the variable z, which the model fixes and unfixes, as a leaf, as a
\* monomial term and as a term of a LinearExpression
FixedVarExprs ==
  {Z, MonE(Num(MaxCoef), "z"), <<"lin", <<MonE(Num(MaxCoef), "z"), NumE(One)>>>>}

\* products of two non-constant operands: LINEAR and GENERAL ones, with a
\* pending multiplier, with a quotient
ProductExprs ==
  {<<"prod", <<"neg", SumE(<<X, NumE(One)>>)>>, Y>>,
   <<"prod", <<"prod", X, Y>>, X>>,
   <<"prod", SumE(<<X, Y>>), <<"div", X, Y>>>>,
   <<"prod", <<"div", SumE(<<X, NumE(One)>>), NumE(Num(2))>>, <<"prod", NumE(Num(2)), Y>>>>}

\* operators without exit-node handlers: on a variable, inside a sum, and
\* on a Param only (the NPV_ class)
NoRuleExprs ==
  {<<"other", <<X>>>>, SumE(<<<<"other", <<X, NumE(One)>>>>, Y>>),
   <<"other", <<<<"param", One>>>>>>}

Inputs == AffineExprs \cup NanExprs \cup IfExprs \cup ExternalExprs
            \cup NamedExprs \cup OtherExprs \cup FixedVarExprs
            \cup ProductExprs \cup NoRuleExprs

\* ------------------------------------------------------------- the state
VARIABLES
  pc,       \* "idle", "walk" (inside walk_expression), "done", "error"
  expr,     \* the expression handed to walk_expression
  stack,    \* the walker's frames, innermost last
  vis,      \* the visitor with its heap, registry and cache; the variables
  pre,      \* the classified result handed to finalizeResult, as it was
  result,   \* the reference walk_expression returned (0: none)
  err,      \* the exception that ended the walk ("" if none)
  nwalks,   \* walks started
  nfixops,  \* fix()/unfix() calls made
  orig,     \* the returned LinearRepn that expr was reconstructed from
            \* with to_expression (r), if it is a reconstruction (given)
  sm        \* the model ScaleModel is applied to, and how far it got

vars == <<pc, expr, stack, vis, pre, result, err, nwalks, nfixops, orig, sm>>

\* The variables the model fixes and unfixes
FixVars == {"z"}

NoPre == [res |-> NoResult, obj |-> LinearRepn]

NoOrig == [given |-> FALSE, r |-> LinearRepn]

\* No model is being scaled.
NoScaling == [pc |-> "off"]

\* A new LinearRepnVisitor with an empty registry and an empty cache
WalkerInit ==
  /\ pc = "idle"
  /\ expr = None
  /\ stack = <<>>
  /\ \E fixed \in SUBSET FixVars :
       vis = [heap |-> <<>>, var_map |-> <<>>, var_order |-> <<>>,
              subexpression_cache |-> <<>>, dispatcher |-> {},
              fixed |-> fixed, value |-> [id \in Vars |-> Num(MaxCoef)],
              nwrites |-> [id \in NamedIds |-> 0],
              ndescents |-> [id \in NamedIds |-> 0]]
  /\ pre = NoPre
  /\ result = 0
  /\ err = ""
  /\ nwalks = 0
  /\ nfixops = 0
  /\ orig = NoOrig

Init == WalkerInit /\ sm = NoScaling

Between == pc \in {"idle", "done", "error"}

\* The walker descends into child: one more descent of a named expression.
Entered(v, child) ==
  IF Kind(child) = "named" THEN [v EXCEPT !.ndescents[child[2]] = @ + 1] ELSE v

\* The walk ends with an exception: the registry and the cache keep what the
\* walk committed.
Abort(v, exc) ==
  /\ pc' = "error"
  /\ stack' = <<>>
  /\ vis' = v
  /\ pre' = NoPre
  /\ result' = 0
  /\ err' = exc

\* The walk ends: finalizeResult on the root's classified result.
Finish(v, res) ==
  \E f \in {finalizeResult(v, res)} :
    /\ pc' = "done"
    /\ stack' = <<>>
    /\ vis' = f.v
    /\ pre' = [res |-> res,
               obj |-> IF res.ref # 0 THEN v.heap[res.ref] ELSE LinearRepn]
    /\ result' = f.ref
    /\ err' = ""

\* The walk goes on with the frames st.
Continue(v, st) ==
  /\ pc' = "walk"
  /\ stack' = st
  /\ vis' = v
  /\ pre' = NoPre
  /\ result' = 0
  /\ err' = ""

\* walk_expression(e) up to its first descent: initializeWalker classifies
\* the root; a root that needs no descent is finalized at once.
StartWalk(e) ==
  /\ Between
  /\ nwalks < MaxWalks
  /\ nwalks' = nwalks + 1
  /\ expr' = e
  /\ orig' = NoOrig
  /\ UNCHANGED <<nfixops, sm>>
  /\ \E r \in {beforeChild(Collect(vis), e)} :
       IF r.exc # "" THEN Abort(r.v, r.exc)
       ELSE IF ~r.walk THEN Finish(r.v, r.res)
       ELSE \E n \in {enterNode(Entered(r.v, e), e)} : Continue(n.v, <<n.frame>>)

\* walk_expression(r.to_expression(visitor)) for the result r the last walk
\* returned, on the same visitor
Reclassify ==
  /\ pc = "done"
  /\ nwalks < MaxWalks
  /\ nwalks' = nwalks + 1
  /\ orig' = [given |-> TRUE, r |-> vis.heap[result]]
  /\ UNCHANGED <<nfixops, sm>>
  /\ \E e \in {LinearRepn_to_expression(vis.heap[result])} :
     \E r \in {beforeChild(Collect(vis), e)} :
       /\ expr' = e
       /\ IF r.exc # "" THEN Abort(r.v, r.exc)
          ELSE IF ~r.walk THEN Finish(r.v, r.res)
          ELSE \E n \in {enterNode(Entered(r.v, e), e)} :
                 Continue(n.v, <<n.frame>>)

Top == stack[Len(stack)]

Below == SubSeq(stack, 1, Len(stack) - 1)

\* beforeChild on the next child of the innermost node, then either
\* acceptChildResult of its result or enterNode of the child.
VisitChild ==
  /\ pc = "walk"
  /\ Top.idx <= Len(Args(Top.node))
  /\ UNCHANGED <<expr, nwalks, nfixops, orig, sm>>
  /\ \E child \in {Args(Top.node)[Top.idx]} :
     \E r \in {beforeChild(vis, child)} :
       IF r.exc # "" THEN Abort(r.v, r.exc)
       ELSE IF ~r.walk
       THEN \E a \in {Accept(r.v, Top, r.res)} :
              Continue(a.v, Append(Below, a.frame))
       ELSE \E n \in {enterNode(Entered(r.v, child), child)} :
              Continue(n.v, Append(stack, n.frame))

\* exitNode of the innermost node, all of its children done; its result
\* goes to the parent's acceptChildResult, or to finalizeResult at the root.
ExitNode ==
  /\ pc = "walk"
  /\ Top.idx > Len(Args(Top.node))
  /\ UNCHANGED <<expr, nwalks, nfixops, orig, sm>>
  /\ \E r \in {exitNode(vis, Top)} :
       IF r.exc # "" THEN Abort(r.v, r.exc)
       ELSE IF Len(stack) = 1 THEN Finish(r.v, r.res)
       ELSE \E a \in {Accept(r.v, stack[Len(stack) - 1], r.res)} :
              Continue(a.v, Append(SubSeq(stack, 1, Len(stack) - 2), a.frame))

\* var.fix(c) between two walks, the result of the last walk consumed
Fix(id, c) ==
  /\ Between
  /\ nfixops < MaxFixOps
  /\ nfixops' = nfixops + 1
  /\ vis' = [Collect(vis) EXCEPT !.fixed = @ \cup {id}, !.value[id] = c]
  /\ pc' = "idle"
  /\ expr' = None
  /\ pre' = NoPre
  /\ result' = 0
  /\ err' = ""
  /\ orig' = NoOrig
  /\ UNCHANGED <<stack, nwalks, sm>>

\* var.unfix() between two walks, the result of the last walk consumed
Unfix(id) ==
  /\ Between
  /\ nfixops < MaxFixOps
  /\ id \in vis.fixed
  /\ nfixops' = nfixops + 1
  /\ vis' = [Collect(vis) EXCEPT !.fixed = @ \ {id}]
  /\ pc' = "idle"
  /\ expr' = None
  /\ pre' = NoPre
  /\ result' = 0
  /\ err' = ""
  /\ orig' = NoOrig
  /\ UNCHANGED <<stack, nwalks, sm>>

Next ==
  \/ \E e \in Inputs : StartWalk(e)
  \/ Reclassify
  \/ VisitChild
  \/ ExitNode
  \/ \E id \in FixVars, c \in {Zero, Num(MaxCoef)} : Fix(id, c)
  \/ \E id \in FixVars : Unfix(id)

Spec == Init /\ [][Next]_vars

\* ------------------------------------------------------------- ScaleModel
\* The model being scaled is a chain of blocks, blocks[1] the parent block
\* of the component data object under study and blocks[Len(blocks)] the
\* model; each block holds, under the name "scaling_factor", nothing
\* (NoComponent), a component that is no Suffix (NotSuffix), or a Suffix,
\* which is a map with keys among
\*   "data"       the component data object itself,
\*   "sibling"    another member of its container (no Suffix has this key),
\*   "container"  the component's container (an indexed component only),
\*   "none"       None.
\* A value stored in a Suffix is
\*   <<"real", q>>   an int or a float,
\*   <<"text", q>>   a string that spells the number q,
\*   <<"word">>      a string that spells no number,
\*   <<"list">>      an object float() does not accept (a list, a complex).
NoComponent == [ctype |-> "none", map |-> <<>>]

NotSuffix == [ctype |-> "Param", map |-> <<>>]

SuffixValues == {<<"real", Num(2)>>, <<"text", Num(-1)>>, <<"word">>, <<"list">>}

SuffixKeys == {"data", "container", "none"}

\* The Suffix components: every map from keys to values
Suffixes ==
  {[ctype |-> "Suffix", map |-> m] :
     m \in UNION {[K -> SuffixValues] : K \in SUBSET SuffixKeys}}

\* What _suffix_finder returns when no pass finds a value
NoValue == <<"None">>

\* reversed(s)
Reverse(sq) == [i \in 1..Len(sq) |-> sq[Len(sq) + 1 - i]]

\* The loop "while parent is not root" from the block at position parent:
\* the Suffix components named suffix_name met on the way up, the leafmost
\* first.  Position Len(blocks) + 1 is the parent_block() of the model, None.
RECURSIVE WalkParents(_, _, _)
WalkParents(blocks, parent, root) ==
  IF parent = root THEN <<>>
  ELSE (IF blocks[parent].ctype = "Suffix" THEN <<blocks[parent].map>> ELSE <<>>)
       \o WalkParents(blocks, parent + 1, root)

\* "for s in suffixes: if key in s: return s[key]": <<found, value>>
RECURSIVE FirstWith(_, _)
FirstWith(suffixes, key) ==
  IF suffixes = <<>> THEN <<FALSE, NoValue>>
  ELSE IF key \in DOMAIN Head(suffixes) THEN <<TRUE, Head(suffixes)[key]>>
  ELSE FirstWith(Tail(suffixes), key)

\* _suffix_finder with pass 1 working leaf to root as pass 3 does
_suffix_finder_leaf_to_root(blocks, scalar, component_data, root) ==
  LET stop == IF root = 0 THEN Len(blocks) + 1 ELSE root + 1
      suffixes == WalkParents(blocks, 1, stop)
      pass1 == FirstWith(suffixes, component_data)
      pass2 == FirstWith(Reverse(suffixes), "container")
      pass3 == FirstWith(suffixes, "none")
  IN  IF pass1[1] THEN pass1[2]
      ELSE IF ~scalar /\ pass2[1] THEN pass2[2]
      ELSE IF pass3[1] THEN pass3[2]
      ELSE NoValue

\* ScaleModel._suffix_finder(component_data, "scaling_factor", root), root
\* the position of a BlockData above the component (0: root=None); scalar:
\* the component is its own container (parent_component() is itself).
_suffix_finder(blocks, scalar, component_data, root) ==
  LET stop == IF root = 0 THEN Len(blocks) + 1 ELSE root + 1
      suffixes == WalkParents(blocks, 1, stop)
      pass1 == FirstWith(Reverse(suffixes), component_data)
      pass2 == FirstWith(Reverse(suffixes), "container")
      pass3 == FirstWith(suffixes, "none")
  IN  IF pass1[1] THEN pass1[2]
      ELSE IF ~scalar /\ pass2[1] THEN pass2[2]
      ELSE IF pass3[1] THEN pass3[2]
      ELSE NoValue

\* float(x): the value, or the exception it raises
float(x) ==
  CASE x[1] = "real" -> [exc |-> "", val |-> x[2]]
    [] x[1] = "text" -> [exc |-> "", val |-> x[2]]
    [] x[1] = "word" -> [exc |-> "ValueError", val |-> Zero]
    [] OTHER -> [exc |-> "TypeError", val |-> Zero]

\* The ValueError _get_float_scaling_factor raises: "Suffix 'scaling_factor'
\* has a value %s for component %s that cannot be converted to a float. ..."
CannotBeConverted(x, component_data) ==
  [exc |-> "ValueError: cannot be converted to a float", val |-> Zero,
   value |-> x, component |-> component_data]

\* What a call hands back without raising
Returned(q) == [exc |-> "", val |-> q, value |-> NoValue, component |-> ""]

\* An exception float() raised that nothing caught
Propagated(f) == [exc |-> f.exc, val |-> Zero, value |-> NoValue, component |-> ""]

\* ScaleModel._get_float_scaling_factor(instance, component_data)
_get_float_scaling_factor(blocks, scalar, component_data) ==
  LET scaling_factor == _suffix_finder(blocks, scalar, component_data, 0)
      f == float(scaling_factor)
  IN  IF scaling_factor = NoValue THEN Returned(One)
      ELSE IF f.exc = "" THEN Returned(f.val)
      ELSE IF f.exc = "ValueError"
      THEN CannotBeConverted(scaling_factor, component_data)
      ELSE Propagated(f)

\* model.component_data_objects(ctype=(Var, Constraint, Objective)): the
\* component data object under study and, in an indexed component, its
\* sibling
Components(scalar) == IF scalar THEN <<"data">> ELSE <<"data", "sibling">>

\* The models: the chain of blocks, and whether the component is scalar (no
\* Suffix then has a key for a container apart from the component)
ScaleInputs ==
  {[blocks |-> b, scalar |-> sc, root |-> r] :
     b \in UNION {[1..n -> {NoComponent, NotSuffix} \cup Suffixes] : n \in 1..MaxDepth},
     sc \in BOOLEAN, r \in 0..MaxDepth}

ScaleInit ==
  /\ WalkerInit
  /\ vis.fixed = {}
  /\ \E in \in ScaleInputs :
       /\ in.root <= Len(in.blocks)
       /\ in.scalar =>
            \A i \in 1..Len(in.blocks) : "container" \notin DOMAIN in.blocks[i].map
       /\ sm = [pc |-> "ready", blocks |-> in.blocks, scalar |-> in.scalar,
                root |-> in.root, found |-> NoValue, factor |-> Returned(Zero),
                map |-> <<>>, error |-> Returned(Zero), modified |-> {}]

\* scaling_factor = self._suffix_finder(component_data, "scaling_factor", root)
SuffixFinder ==
  /\ sm.pc = "ready"
  /\ sm' = [sm EXCEPT !.pc = "found",
                      !.found = _suffix_finder(sm.blocks, sm.scalar, "data", sm.root)]
  /\ UNCHANGED <<pc, expr, stack, vis, pre, result, err, nwalks, nfixops, orig>>

\* self._get_float_scaling_factor(model, component_data)
GetFloatScalingFactor ==
  /\ sm.pc = "found"
  /\ sm' = [sm EXCEPT !.pc = "apply",
                      !.factor = _get_float_scaling_factor(sm.blocks, sm.scalar, "data")]
  /\ UNCHANGED <<pc, expr, stack, vis, pre, result, err, nwalks, nfixops, orig>>

\* _apply_to, one turn of its first loop: the scaling factor of the next
\* component goes to component_scaling_factor_map; an exception ends
\* _apply_to.
ApplyToGetFactor ==
  /\ sm.pc = "apply"
  /\ Len(sm.map) < Len(Components(sm.scalar))
  /\ \E c \in {Components(sm.scalar)[Len(sm.map) + 1]} :
     \E f \in {_get_float_scaling_factor(sm.blocks, sm.scalar, c)} :
       sm' = IF f.exc # ""
             THEN [sm EXCEPT !.pc = "raised", !.error = f]
             ELSE [sm EXCEPT !.map = Append(@, f.val)]
  /\ UNCHANGED <<pc, expr, stack, vis, pre, result, err, nwalks, nfixops, orig>>

\* _apply_to past its first loop: the components are renamed, the bounds
\* and values of the variables scaled, the constraints and objectives
\* rewritten.
ApplyToScale ==
  /\ sm.pc = "apply"
  /\ Len(sm.map) = Len(Components(sm.scalar))
  /\ sm' = [sm EXCEPT !.pc = "scaled",
                      !.modified = {Components(sm.scalar)[i] :
                                      i \in 1..Len(Components(sm.scalar))}]
  /\ UNCHANGED <<pc, expr, stack, vis, pre, result, err, nwalks, nfixops, orig>>

ScaleNext ==
  \/ SuffixFinder
  \/ GetFloatScalingFactor
  \/ ApplyToGetFactor
  \/ ApplyToScale

ScaleSpec == ScaleInit /\ [][ScaleNext]_vars

\* ------------------------------------------------------------ the claims
Done == pc = "done"

\* The LinearRepn walk_expression returned
Res == vis.heap[result]

\* A linear dict as the map it denotes
LinMap(d) == [vid \in Keys(d) |-> Get(d, vid)]

NoDuplicateKeys(d) == \A i, j \in 1..Len(d) : d[i][1] = d[j][1] => i = j

\* The variables occurring in e
RECURSIVE VarsOf(_)
VarsOf(e) ==
  CASE Kind(e) = "var" -> {e[2]}
    [] Kind(e) \in {"num", "param"} -> {}
    [] OTHER -> UNION {VarsOf(Args(e)[i]) : i \in 1..Len(Args(e))}

FiniteConst(e) == Kind(e) = "num" /\ IsFinite(e[2])

\* e is purely affine: sums, negations, constant multiples and constant
\* divisions (by a non-zero constant) of constants and coefficient*variable
\* terms, all constants finite.
RECURSIVE IsAffine(_)
IsAffine(e) ==
  CASE Kind(e) = "num" -> FiniteConst(e)
    [] Kind(e) = "var" -> TRUE
    [] Kind(e) = "mon" -> FiniteConst(e[2])
    [] Kind(e) = "neg" -> IsAffine(e[2])
    [] Kind(e) = "prod" ->
         \/ FiniteConst(e[2]) /\ IsAffine(e[3])
         \/ IsAffine(e[2]) /\ FiniteConst(e[3])
    [] Kind(e) = "div" -> IsAffine(e[2]) /\ FiniteConst(e[3]) /\ ~IsZero(e[3][2])
    [] Kind(e) \in {"sum", "lin"} -> \A i \in 1..Len(e[2]) : IsAffine(e[2][i])
    [] OTHER -> FALSE

\* The coefficient of variable vid in the affine expression e, by hand:
\* the algebra of affine forms, not the walk.
RECURSIVE NetCoef(_, _)
RECURSIVE NetCoefSum(_, _)
NetCoefSum(args, vid) ==
  IF args = <<>> THEN Zero
  ELSE Add(NetCoef(Head(args), vid), NetCoefSum(Tail(args), vid))

NetCoef(e, vid) ==
  CASE Kind(e) = "num" -> Zero
    [] Kind(e) = "var" -> IF e[2] = vid THEN One ELSE Zero
    [] Kind(e) = "mon" -> IF e[3] = vid THEN e[2][2] ELSE Zero
    [] Kind(e) = "neg" -> Mul(Num(-1), NetCoef(e[2], vid))
    [] Kind(e) = "prod" ->
         IF Kind(e[2]) = "num" THEN Mul(e[2][2], NetCoef(e[3], vid))
         ELSE Mul(NetCoef(e[2], vid), e[3][2])
    [] Kind(e) = "div" -> Div(NetCoef(e[2], vid), e[3][2])
    [] OTHER -> NetCoefSum(e[2], vid)

\* The map of the variables of e with a non-zero net coefficient
NetLinear(e) ==
  [vid \in {w \in VarsOf(e) : ~IsZero(NetCoef(e, w))} |-> NetCoef(e, vid)]

Example == AffineArgs(Num(3), Num(2), Num(-3), Num(5))

\* C1: for every purely affine expression over unfixed variables the walk
\* returns nonlinear = None and a linear map holding exactly the variables
\* whose net coefficient is non-zero, each with that coefficient; for
\* 3*x + 2*y - 3*x + 5 (SumExpression or LinearExpression) it is
\* linear = {y: 2}, constant = 5.
C1_AffineLinear ==
  (/\ pc \in {"done", "error"}
   /\ IsAffine(expr)
   /\ VarsOf(expr) \cap vis.fixed = {})
  => /\ Done
     /\ Res.nonlinear = None
     /\ NoDuplicateKeys(Res.linear)
     /\ LinMap(Res.linear) = NetLinear(expr)
     /\ (expr \in {SumE(Example), <<"lin", Example>>}
           => Res.linear = <<<<"y", Num(2)>>>> /\ Res.constant = Num(5))

C1_Witness ==
  /\ Done
  /\ expr = SumE(Example)
  /\ Res.linear = <<<<"y", Num(2)>>>>
  /\ Res.constant = Num(5)

\* The walk of expr is over, with a result or with an exception.
Ended == pc \in {"done", "error"}

\* C2: finalizeResult distributes the pending multiplier m of the result it
\* is handed into every part: constant = m*c, each surviving linear
\* coefficient = m*k, nonlinear = m*n when n is present.
C2_FinalizeDistributes ==
  (Done /\ pre.res.ref # 0 /\ IsFinite(pre.obj.multiplier))
  => LET m == pre.obj.multiplier
     IN  /\ Res.constant = Mul(m, pre.obj.constant)
         /\ \A vid \in Keys(Res.linear) :
              Get(Res.linear, vid) = Mul(m, Get(pre.obj.linear, vid))
         /\ pre.obj.nonlinear # None =>
              Res.nonlinear = IF IsOne(m) THEN pre.obj.nonlinear
                              ELSE <<"prod", pre.obj.nonlinear, NumE(m)>>

\* C3: every result walk_expression returns has multiplier 1.
C3_MultiplierAbsorbed == Done => IsOne(Res.multiplier)

\* C4: after finalization no entry of the linear map has coefficient zero,
\* and every entry whose coefficient was NaN before it is still there, NaN.
C4_NoZeroKeepNaN ==
  Done => /\ \A i \in 1..Len(Res.linear) : ~IsZero(Res.linear[i][2])
          /\ \A vid \in Keys(pre.obj.linear) :
               IsNaN(Get(pre.obj.linear, vid))
                 => Has(Res.linear, vid) /\ IsNaN(Get(Res.linear, vid))

\* x*0 + x*nan: as two products, as two monomial terms of a sum, and as a
\* LinearExpression
ZeroPlusNan ==
  {SumE(<<<<"prod", X, NumE(Zero)>>, <<"prod", X, NumE(nan)>>>>),
   SumE(<<MonE(Zero, "x"), MonE(nan, "x")>>),
   <<"lin", <<MonE(Zero, "x"), MonE(nan, "x")>>>>}

\* x - x: under a negation, and as monomial terms 1*x and -1*x
XMinusX ==
  {Cancel(One, One), SumE(<<MonE(One, "x"), MonE(Num(-1), "x")>>),
   <<"lin", <<MonE(One, "x"), MonE(Num(-1), "x")>>>>}

\* C5 as claimed: classifying x*0 + x*nan keeps an entry for x with
\* coefficient NaN in the linear map.
C5_NanEntryKept ==
  (Ended /\ expr \in ZeroPlusNan)
  => Done /\ Has(Res.linear, "x") /\ IsNaN(Get(Res.linear, "x"))

\* C5 as amended: classifying x*0 + x*nan yields constant NaN with an empty
\* linear map (the NaN term goes to the constant, x is no key), and x - x
\* yields constant 0 with x absent from the linear map.
C5_NanToConstant ==
  /\ (Ended /\ expr \in ZeroPlusNan)
       => Done /\ Res.linear = <<>> /\ IsNaN(Res.constant) /\ Res.nonlinear = None
  /\ (Ended /\ expr \in XMinusX)
       => Done /\ Res.linear = <<>> /\ Res.constant = Zero /\ Res.nonlinear = None

C5_Witness ==
  /\ Done
  /\ expr = SumE(<<<<"prod", X, NumE(Zero)>>, <<"prod", X, NumE(nan)>>>>)
  /\ IsNaN(Res.constant)
  /\ "x" \in DOMAIN vis.var_order

\* 0 * (1/0), the divisor a Param holding 0; nan * x, x * nan, and nan
\* times a LINEAR and a GENERAL operand
ZeroTimesFailing == <<"prod", NumE(Zero), <<"div", NumE(One), <<"param", Zero>>>>>>

NanTimes ==
  {<<"prod", NumE(nan), X>>, <<"prod", X, NumE(nan)>>,
   <<"prod", NumE(nan), <<"prod", X, Y>>>>}
  \cup {<<"prod", NumE(nan), SumE(<<X, NumE(c)>>)>> : c \in Finite}

IfConst(t) == {<<"if", NumE(t), X, Y>>, <<"if", <<"param", t>>, X, Y>>}

\* C7: on a registry holding neither x nor y, Expr_if(test, then=x, else=y)
\* with a constant true test completes, classifies as x, registers x and
\* not y; with a false test, y and not x.
C7_IfShortCircuit ==
  \A t \in Finite :
    (Ended /\ nwalks = 1 /\ expr \in IfConst(t))
    => /\ Done
       /\ DOMAIN vis.var_order = {IF IsZero(t) THEN "y" ELSE "x"}
       /\ Res.linear = <<<<IF IsZero(t) THEN "y" ELSE "x", One>>>>
       /\ Res.nonlinear = None

\* C8: an external-function call is never descended; with every argument
\* fixed it is CONSTANT with the value of the call as a bare number,
\* otherwise GENERAL with the call node as the nonlinear payload.
C8_External ==
  /\ \A i \in 1..Len(stack) : Kind(stack[i].node) # "ext"
  /\ (Ended /\ Kind(expr) = "ext")
       => /\ Done
          /\ IF is_fixed(expr, vis.fixed)
             THEN pre.res = Const(Eval(expr, vis.value)[2])
             ELSE pre.res.tag = "GENERAL" /\ pre.obj.nonlinear = expr

\* e with every named expression replaced by its expr
RECURSIVE Inline(_)
Inline(e) ==
  CASE Kind(e) = "named" -> Inline(NamedExpr(e[2]))
    [] Kind(e) = "sum" -> SumE([i \in 1..Len(e[2]) |-> Inline(e[2][i])])
    [] Kind(e) = "neg" -> <<"neg", Inline(e[2])>>
    [] Kind(e) = "prod" -> <<"prod", Inline(e[2]), Inline(e[3])>>
    [] OTHER -> e

\* e + x and e + y for a named expression
SharedUses == {SumE(<<<<"named", id>>, w>>) : id \in NamedIds, w \in {X, Y}}

\* No variable is or was fixed.
NeverFixed == vis.fixed = {} /\ nfixops = 0

C9_State ==
  /\ \A id \in NamedIds :
       /\ vis.ndescents[id] <= 1
       /\ vis.nwrites[id] <= 1
       /\ id \in DOMAIN vis.subexpression_cache <=> vis.nwrites[id] = 1
  /\ (Ended /\ NeverFixed /\ expr \in SharedUses)
       => /\ Done
          /\ Res.nonlinear = None
          /\ LinMap(Res.linear) = NetLinear(Inline(expr))
          /\ Res.constant = Eval(Inline(expr), [id \in Vars |-> Zero])[2]

C9_Indices ==
  \A id \in DOMAIN vis.var_order :
    id \in DOMAIN vis'.var_order /\ vis'.var_order[id] = vis.var_order[id]

\* C9: over the walks of one driver a named expression is descended at most
\* once and its cache entry written at most once (it is cached exactly when
\* written); e + x and e + y both get e's coefficients and constant, the
\* later one from the cache; and no discovery index ever changes.
C9_SharedReuse == []C9_State /\ [][C9_Indices]_vars

\* The second walk took e from the cache: e + x, then e + y.
C9_Witness ==
  /\ Done
  /\ nwalks = 2
  /\ NeverFixed
  /\ expr = SumE(<<<<"named", "e">>, Y>>)
  /\ vis.ndescents["e"] = 1
  /\ vis.var_order = [z |-> 0, x |-> 1, y |-> 2]
  /\ LinMap(Res.linear) = [z |-> Num(2), y |-> One]

\* The references to LinearRepn objects that are live: those held by the
\* walker's frames, by the cache and by the caller (the result).
RECURSIVE FrameRefs(_)
FrameRefs(st) ==
  IF st = <<>> THEN <<>>
  ELSE <<Head(st).acc>> \o [i \in 1..Len(Head(st).data) |-> Head(st).data[i].ref]
       \o FrameRefs(Tail(st))

CacheRefs ==
  [i \in 1..Len(CachedIds(vis)) |-> vis.subexpression_cache[CachedIds(vis)[i]].ref]

LiveRefs == SelectSeq(FrameRefs(stack) \o CacheRefs \o <<result>>, LAMBDA r : r # 0)

NoAlias == \A i, j \in 1..Len(LiveRefs) : LiveRefs[i] = LiveRefs[j] => i = j

\* A step leaves every cache entry, and the LinearRepn it refers to, as it was.
CacheStable ==
  \A id \in DOMAIN vis.subexpression_cache :
    /\ id \in DOMAIN vis'.subexpression_cache
    /\ vis'.subexpression_cache[id].tag = vis.subexpression_cache[id].tag
    /\ vis'.subexpression_cache[id].val = vis.subexpression_cache[id].val
    /\ vis.subexpression_cache[id].ref # 0 =>
         /\ vis'.subexpression_cache[id].ref # 0
         /\ vis'.heap[vis'.subexpression_cache[id].ref]
              = vis.heap[vis.subexpression_cache[id].ref]

\* C10: the LinearRepn handed to a consumer of a named expression is a
\* duplicate: no two live references (frames, cache, returned result) are to
\* the same object, and no step (scaling, negation, merging, finalization)
\* changes a cache entry or the object it holds.
C10_CacheIsolation == []NoAlias /\ [][CacheStable]_vars

\* -1 * e with e from the cache, finalized: the copy's linear map is scaled, the cached
\* object's is not.
C10_Witness ==
  /\ Done
  /\ nwalks = 2
  /\ expr = <<"prod", NumE(Num(-1)), <<"named", "e">>>>
  /\ vis.ndescents["e"] = 1
  /\ "e" \in DOMAIN vis.subexpression_cache
  /\ vis.subexpression_cache["e"].ref # 0
  /\ vis.heap[vis.subexpression_cache["e"].ref].linear = <<<<"z", Num(2)>>>>
  /\ Res.linear = <<<<"z", Num(-2)>>>>
\* A step removes no cache entry and makes no further assignment to the key
\* of an entry that exists.
C11_Step ==
  \A id \in DOMAIN vis.subexpression_cache :
    /\ id \in DOMAIN vis'.subexpression_cache
    /\ vis'.nwrites[id] = vis.nwrites[id]

\* The keys of the cache are those assigned exactly once; a key never
\* assigned is absent.
C11_Written ==
  \A id \in NamedIds :
    IF id \in DOMAIN vis.subexpression_cache THEN vis.nwrites[id] = 1
    ELSE vis.nwrites[id] = 0

\* C11: the subexpression cache is append-only over the walks of one
\* driver: an entry, once written, is never removed and its key is never
\* assigned again, also when the named node occurs again in the same
\* expression or in a later one, and when variables are fixed between walks.
C11_CacheAppendOnly == []C11_Written /\ [][C11_Step]_vars

\* e - e in the second walk, e cached as a CONSTANT by the first: both
\* occurrences come from the cache.
C11_Witness ==
  /\ Done
  /\ nwalks = 2
  /\ expr = SumE(<<<<"named", "e">>, <<"neg", <<"named", "e">>>>>>)
  /\ "e" \in DOMAIN vis.subexpression_cache
  /\ vis.subexpression_cache["e"].tag = "CONSTANT"
  /\ vis.nwrites["e"] = 1
  /\ vis.ndescents["e"] = 1

\* The variables a before-child handler may register for child, in the
\* order it meets them: the variable of a var leaf, of a monomial term and
\* of the monomial terms of a LinearExpression, a term whose coefficient is
\* zero or NaN left out (such a term never reaches the registry).
RECURSIVE DiscoverySeq(_, _)
RECURSIVE DiscoverySeqArgs(_, _)
DiscoverySeqArgs(args, val) ==
  IF args = <<>> THEN <<>>
  ELSE (IF Kind(Head(args)) = "mon" THEN DiscoverySeq(Head(args), val) ELSE <<>>)
       \o DiscoverySeqArgs(Tail(args), val)

DiscoverySeq(e, val) ==
  CASE Kind(e) = "var" -> <<e[2]>>
    [] Kind(e) = "mon" ->
         LET c == Eval(e[2], val)
         IN  IF c[1] /\ ~IsZero(c[2]) /\ ~IsNaN(c[2]) THEN <<e[3]>> ELSE <<>>
    [] Kind(e) = "lin" -> DiscoverySeqArgs(e[2], val)
    [] OTHER -> <<>>

\* The position of the first occurrence of id in the sequence sq (0: none)
FirstPos(sq, id) ==
  IF \E i \in 1..Len(sq) : sq[i] = id
  THEN CHOOSE i \in 1..Len(sq) : sq[i] = id /\ \A j \in 1..(i - 1) : sq[j] # id
  ELSE 0

\* The child a step hands to beforeChild: the root when a walk starts, the
\* next operand of the innermost node otherwise.
StepChild ==
  IF pc = "walk" /\ Top.idx <= Len(Args(Top.node))
  THEN Args(Top.node)[Top.idx]
  ELSE expr'

\* var_map and var_order have the same keys, the keys are variables mapped
\* to themselves, and the indices are exactly 0..n-1.
C12_Registry ==
  /\ DOMAIN vis.var_map = DOMAIN vis.var_order
  /\ \A id \in DOMAIN vis.var_map : vis.var_map[id] = VarE(id)
  /\ {vis.var_order[id] : id \in DOMAIN vis.var_order}
       = 0..(Cardinality(DOMAIN vis.var_order) - 1)
  /\ \A a, b \in DOMAIN vis.var_order :
       vis.var_order[a] = vis.var_order[b] => a = b

\* A step removes no key and changes no index; the keys it adds get the
\* next indices, in the order the walk met them.
C12_Step ==
  LET old == DOMAIN vis.var_order
      new == DOMAIN vis'.var_order \ old
  IN  /\ \A id \in old :
           /\ id \in DOMAIN vis'.var_order
           /\ vis'.var_order[id] = vis.var_order[id]
           /\ id \in DOMAIN vis'.var_map
      /\ \A id \in new : vis'.var_order[id] >= Cardinality(old)
      /\ \A a \in new : FirstPos(DiscoverySeq(StepChild, vis.value), a) > 0
      /\ \A a, b \in new :
           vis'.var_order[a] < vis'.var_order[b]
             <=> FirstPos(DiscoverySeq(StepChild, vis.value), a)
                   < FirstPos(DiscoverySeq(StepChild, vis.value), b)

\* C12: over every sequence of walks on one registry, walks that end with
\* an exception and walks that leave _before_linear for a descent part-way
\* included, var_map and var_order have the same keys, the indices are
\* exactly 0..n-1 in order of first discovery, no key is removed and no
\* index changes.
C12_RegistryInvariant == []C12_Registry /\ [][C12_Step]_vars

\* 1*x + 1/p with p = 0 as a LinearExpression
PartialLinear ==
  <<"lin", <<MonE(One, "x"), <<"div", NumE(One), <<"param", Zero>>>>>>>>

\* The second walk registered x in _before_linear, left the loop for a
\* descent at the term that cannot be evaluated, and ended with an
\* exception; y is from the first walk.
C12_Witness ==
  /\ pc = "error"
  /\ nwalks = 2
  /\ expr = PartialLinear
  /\ vis.var_order = [y |-> 0, x |-> 1]
  /\ DOMAIN vis.var_map = {"x", "y"}

\* C13: a variable that is fixed when the walk meets it, as a leaf, as the
\* variable of a monomial term c*z or of a term of a LinearExpression
\* c*z + 1, is classified CONSTANT with its current value (z, c*z,
\* c*z + 1), also when an earlier walk registered it while it was unfixed;
\* an unfixed one is in the registry afterwards and classified LINEAR with
\* its coefficient (1 for the leaf).
C13_FixedConstant ==
  (Ended /\ expr \in FixedVarExprs)
  => /\ Done
     /\ IF "z" \in vis.fixed
        THEN pre.res = Const(Eval(expr, vis.value)[2])
        ELSE /\ pre.res.tag = "LINEAR"
             /\ pre.obj.linear = <<<<"z", IF expr = Z THEN One ELSE Num(MaxCoef)>>>>
             /\ pre.obj.nonlinear = None
             /\ "z" \in DOMAIN vis.var_order

\* The walk of a reconstruction is over.
Reclassified == Ended /\ orig.given

\* C14: for every result r that walk_expression returned, classifying
\* r.to_expression(visitor) on the same visitor yields an equivalent result:
\* the same constant, the same linear map by variable identity, and a
\* nonlinear part present exactly when r has one.
C14_Idempotent ==
  Reclassified
  => /\ Done
     /\ Res.constant = orig.r.constant
     /\ LinMap(Res.linear) = LinMap(orig.r.linear)
     /\ (Res.nonlinear = None) <=> (orig.r.nonlinear = None)

\* tag CONSTANT goes with a bare number; LINEAR with a LinearRepn that has
\* terms and no nonlinear part; GENERAL with a LinearRepn that has a
\* nonlinear part.
ConsistentPair(res, heap) ==
  CASE res.tag = "CONSTANT" -> res.ref = 0
    [] res.tag = "LINEAR" ->
         /\ res.ref # 0
         /\ heap[res.ref].linear # <<>>
         /\ heap[res.ref].nonlinear = None
    [] res.tag = "GENERAL" -> res.ref # 0 /\ heap[res.ref].nonlinear # None
    [] OTHER -> FALSE

\* What the callback due next inside a walk hands back: beforeChild on the
\* next operand of the innermost node, or exitNode of that node.
NextCallback ==
  IF Top.idx <= Len(Args(Top.node))
  THEN beforeChild(vis, Args(Top.node)[Top.idx])
  ELSE exitNode(vis, Top)

Grid == [Vars -> {Num(-1), One, Num(2)}]

\* a and b have the same value (or both raise) wherever the variables are
\* in Grid
Equivalent(a, b) == \A val \in Grid : Eval(a, val) = Eval(b, val)

XPlus1TimesYPlus1 == <<"prod", SumE(<<X, NumE(One)>>), SumE(<<Y, NumE(One)>>)>>

\* exitNode is due on a product whose two operands are both non-constant.
ProductOfNonConstants ==
  /\ pc = "walk"
  /\ Kind(Top.node) = "prod"
  /\ Top.idx = 3
  /\ Top.data[1].tag \in NonConst
  /\ Top.data[2].tag \in NonConst

\* C16: a product of two non-constant operands (each LINEAR or GENERAL) is
\* classified GENERAL with an empty linear map, constant 0 and multiplier
\* 1, its nonlinear part the product of the two reconstructed operands, a
\* function equal to the product node; (x+1)*(y+1) returns a nonlinear
\* part equivalent to (x+1)*(y+1), with neither x nor y in linear.
C16_ProductGeneral ==
  /\ ProductOfNonConstants =>
       \E r \in {NextCallback} :
         /\ r.exc = ""
         /\ ~r.walk
         /\ r.res.tag = "GENERAL"
         /\ r.v.heap[r.res.ref].linear = <<>>
         /\ r.v.heap[r.res.ref].constant = Zero
         /\ r.v.heap[r.res.ref].multiplier = One
         /\ r.v.heap[r.res.ref].nonlinear =
              <<"prod", to_expression(vis, Top.data[1]),
                        to_expression(vis, Top.data[2])>>
         /\ Equivalent(r.v.heap[r.res.ref].nonlinear, Top.node)
  /\ (Ended /\ expr = XPlus1TimesYPlus1) =>
       /\ Done
       /\ pre.res.tag = "GENERAL"
       /\ Res.linear = <<>>
       /\ Res.nonlinear # None
       /\ Equivalent(Res.nonlinear, XPlus1TimesYPlus1)

C16_Witness ==
  /\ Done
  /\ expr = XPlus1TimesYPlus1
  /\ pre.res.tag = "GENERAL"
  /\ Res.linear = <<>>
  /\ Res.nonlinear =
       <<"prod", SumE(<<<<"lin", <<MonE(One, "x")>>>>, NumE(One)>>),
                 SumE(<<<<"lin", <<MonE(One, "y")>>>>, NumE(One)>>)>>

\* 1/p with the Param p holding 0: its evaluation raises ZeroDivisionError
OneOverZero == <<"div", NumE(One), <<"param", Zero>>>>

\* The eager evaluation a before-child handler makes for child raises: a
\* never-variable subexpression, the coefficient of a monomial term, a
\* term of a LinearExpression.
EagerEvaluationRaises(child, val) ==
  CASE Kind(child) = "mon" -> ~Eval(child[2], val)[1]
    [] Kind(child) = "lin" ->
         \E i \in 1..Len(child[2]) :
           ~Eval(IF Kind(child[2][i]) = "mon" THEN child[2][i][2] ELSE child[2][i],
                 val)[1]
    [] Kind(child) \in {"var", "num", "named", "if"} -> FALSE
    [] OTHER -> ~IsPV(child) /\ ~Eval(child, val)[1]

\* Expressions with a subexpression that cannot be evaluated: 0 * (1/p),
\* (1/p) * x as a monomial term, 1*x + 1/p as a LinearExpression, and the
\* never-variable sum p1 + 1/p
FailingExprs ==
  {ZeroTimesFailing, <<"mon", OneOverZero, "x">>, PartialLinear,
   <<"sum", <<<<"param", One>>, OneOverZero>>>>}

\* C17: when the eager evaluation of a never-variable subexpression, of a
\* monomial's coefficient or of a term of a LinearExpression raises, the
\* before-child handler raises nothing and signals descent, and the walk
\* of that node goes on through the exit-node rules to a classification:
\* it does not end with an exception.
C17_Recovery ==
  /\ (pc = "walk" /\ Top.idx <= Len(Args(Top.node))
        /\ EagerEvaluationRaises(Args(Top.node)[Top.idx], vis.value))
       => \E r \in {NextCallback} : r.exc = "" /\ r.walk
  /\ (Ended /\ expr \in FailingExprs) => Done

\* exitNode is due on a node that keeps its operands in a list and has no
\* rule for its class and their tags.
ExitWithoutRule ==
  /\ pc = "walk"
  /\ Top.idx > Len(Args(Top.node))
  /\ Top.acc = 0
  /\ ~HasRule(Top.node, Tags(Top.data))

\* C18: an operator node for which the exit-node table has no entry for
\* (class, operand tags) makes the walk fail with an error raised to the
\* caller (KeyError): exitNode hands back no (tag, payload) pair for it,
\* and walk_expression on an expression with such a node returns no
\* result.
C18_NoRuleFails ==
  /\ ExitWithoutRule =>
       \E r \in {NextCallback} : r.exc = "KeyError" /\ r.res = NoResult
  /\ (Ended /\ expr \in NoRuleExprs /\ IsPV(expr)) =>
       /\ pc = "error"
       /\ err = "KeyError"
       /\ result = 0
       /\ pre = NoPre

\* The walk of other(x, 1) + y ended with KeyError at the exit of the
\* operator, x registered on the way.
C18_Witness ==
  /\ pc = "error"
  /\ err = "KeyError"
  /\ expr = SumE(<<<<"other", <<X, NumE(One)>>>>, Y>>)
  /\ result = 0
  /\ "x" \in DOMAIN vis.var_order
  /\ "y" \notin DOMAIN vis.var_order

\* The positions of the blocks searched: from the parent block of the
\* component up to the root given, or up to the model (root = 0)
Searched(root) == 1..(IF root = 0 THEN Len(sm.blocks) ELSE root)

\* The searched blocks whose "scaling_factor" is a Suffix with the key
HaveKey(key, root) ==
  {i \in Searched(root) :
     sm.blocks[i].ctype = "Suffix" /\ key \in DOMAIN sm.blocks[i].map}

Highest(S) == CHOOSE i \in S : \A j \in S : j <= i

Lowest(S) == CHOOSE i \in S : \A j \in S : i <= j

\* The value the three passes resolve for the component: the rootmost
\* Suffix with the component data; else the rootmost with its container;
\* else the leafmost with None; else None.
Resolved(component_data, root) ==
  IF HaveKey(component_data, root) # {}
  THEN sm.blocks[Highest(HaveKey(component_data, root))].map[component_data]
  ELSE IF ~sm.scalar /\ HaveKey("container", root) # {}
  THEN sm.blocks[Highest(HaveKey("container", root))].map["container"]
  ELSE IF HaveKey("none", root) # {}
  THEN sm.blocks[Lowest(HaveKey("none", root))].map["none"]
  ELSE NoValue

\* C19: _suffix_finder resolves the value by three ordered passes over the
\* Suffixes on the blocks between the component and the root: the first
\* Suffix, root down to leaf, that has the component data; else the first,
\* root down to leaf, that has the component's container; else the first,
\* leaf up to root, that has the key None; else None.  A match of an
\* earlier pass wins over any match of a later one.
C19_SuffixPasses ==
  sm.pc \in {"found", "apply", "raised", "scaled"}
  => sm.found = Resolved("data", sm.root)

\* Both blocks have a Suffix with the component data; the leaf one has the
\* container and None as well: the value of the model's Suffix is found.
C19_Witness ==
  /\ sm.pc = "found"
  /\ sm.root = 0
  /\ ~sm.scalar
  /\ Len(sm.blocks) = 2
  /\ sm.blocks[1].ctype = "Suffix"
  /\ sm.blocks[2].ctype = "Suffix"
  /\ DOMAIN sm.blocks[1].map = {"data", "container", "none"}
  /\ DOMAIN sm.blocks[2].map = {"data"}
  /\ sm.blocks[1].map["data"] = <<"word">>
  /\ sm.blocks[2].map["data"] = <<"real", Num(2)>>
  /\ sm.found = <<"real", Num(2)>>

\* The suffix value spells or is a real number.
IsReal(x) == x[1] \in {"real", "text"}

\* C20: _get_float_scaling_factor returns 1.0 when no scaling_factor value
\* is found for the component, the value as a real number when it can be
\* converted, and for every value that cannot be converted raises the
\* ValueError that names the value and the component; _apply_to raises it
\* before any component is modified.
C20_FloatFactor ==
  /\ sm.pc \in {"apply", "raised", "scaled"} =>
       LET x == Resolved("data", 0)
       IN  sm.factor = IF x = NoValue THEN Returned(One)
                       ELSE IF IsReal(x) THEN Returned(x[2])
                       ELSE CannotBeConverted(x, "data")
  /\ sm.pc = "raised" =>
       /\ sm.modified = {}
       /\ \E c \in {"data", "sibling"} :
            sm.error = CannotBeConverted(Resolved(c, 0), c)

\* The frame that receives the pair the next callback produces: the
\* innermost node for a pair of beforeChild, its parent for a pair of
\* exitNode (none at the root)
Receiver ==
  IF Top.idx <= Len(Args(Top.node)) THEN <<Top>>
  ELSE IF Len(stack) > 1 THEN <<stack[Len(stack) - 1]>>
  ELSE <<>>

\* Every number of the LinearRepn is finite.
AllFinite(obj) ==
  /\ IsFinite(obj.multiplier)
  /\ IsFinite(obj.constant)
  /\ \A i \in 1..Len(obj.linear) : IsFinite(obj.linear[i][2])

\* The value of the expression e where the variables are val, NaN when the
\* evaluation raises
ValueAt(e, val) == LET r == Eval(e, val) IN IF r[1] THEN r[2] ELSE nan

\* The valuations of Grid that give the variables pairwise different values
Points == {val \in Grid : \A a, b \in Vars : val[a] = val[b] => a = b}

\* append(other) on the accumulator acc adds the value of other: the
\* accumulator's multiplier stays 1 and, all numbers finite, its value
\* after is its value before plus the value of the child with the child's
\* multiplier applied.
AppendAdds(v, acc, other) ==
  LET before == v.heap[acc]
      after == append(v, acc, other).heap[acc]
      child == to_expression(v, other)
      finite == /\ AllFinite(before)
                /\ IF other.ref # 0 THEN AllFinite(v.heap[other.ref])
                   ELSE IsFinite(other.val)
  IN  /\ IsOne(before.multiplier)
      /\ IsOne(after.multiplier)
      /\ finite =>
           \A val \in Points :
             ValueAt(LinearRepn_to_expression(after), val)
               = Add(ValueAt(LinearRepn_to_expression(before), val),
                     ValueAt(child, val))

\* C21: whenever LinearRepn.append is called on the accumulator of a sum
\* node the accumulator's multiplier is 1: it is 1 in every accumulator of
\* the walker's stack (a multiplier changes only on what a node handed
\* back at its exit), so that adding the child's constant, linear terms
\* and nonlinear part scaled by the child's own multiplier adds exactly
\* the child's value.
C21_AccumulatorMultiplier ==
  pc = "walk" =>
    /\ \A i \in 1..Len(stack) :
         stack[i].acc # 0 => IsOne(vis.heap[stack[i].acc].multiplier)
    /\ \E r \in {NextCallback} :
         (r.exc = "" /\ ~r.walk /\ Receiver # <<>>) =>
           (Receiver[1].acc # 0 => AppendAdds(r.v, Receiver[1].acc, r.res))

\* -1 * (x + 1) has been appended to the accumulator of -1*(x + 1) + y:
\* the child came with multiplier -1, the accumulator has constant -1 and
\* x: -1 under multiplier 1.
C21_Witness ==
  /\ pc = "walk"
  /\ Len(stack) = 1
  /\ expr = SumE(<<<<"prod", NumE(Num(-1)), SumE(<<X, NumE(One)>>)>>, Y>>)
  /\ Top.acc # 0
  /\ Top.idx = 2
  /\ vis.heap[Top.acc] =
       [multiplier |-> One, constant |-> Num(-1),
        linear |-> <<<<"x", Num(-1)>>>>, nonlinear |-> None]
=============================================================================
